---- MODULE Spec2Model ----
(***************************************************************************)
(* Model of the traffic monitoring pipeline: the fog node (fog.py), the    *)
(* cloud server (cloud.py), the two database tables (models.py) and the    *)
(* request handlers of app.py, the concurrent batch endpoint included.     *)
(*                                                                         *)
(* The database is whatever DATABASE_URL names.  The code takes no lock    *)
(* around the read-modify-write of the fog_stats row, so a worker's query  *)
(* of the row and its commit are two steps that other workers' steps may   *)
(* separate (any engine at READ COMMITTED allows it).  An UPDATE writes    *)
(* only the columns the worker assigned, as the ORM's unit of work does.   *)
(***************************************************************************)
EXTENDS Integers, Sequences, FiniteSets, TLC

(* ------------------------------ bounds -------------------------------- *)

\* Readings generated by batch workers in one run of the concurrent model.
MaxReadings == 2

\* The same for the runs that look for lost counter updates, where a
\* counter goes down only when three workers overlap.
MaxRaceReadings == 3

\* clear-logs requests served in one run of the concurrent model.
MaxClears == 1

\* Requests served in one run of the sequential request model.
MaxRequests == 3

\* process calls in one run of the fog model.
MaxFogCalls == 22

\* Readings of the fog model that differ from the usual reading.
MaxOdd == 1

\* /cloud/store requests served in one run of the cloud model.
MaxStores == 12

\* add_console_log calls in one run of the log model.
MaxAppends == 102

\* _predict_congestion calls in one run of the history model.
MaxPredicts == 22

\* Readings that the batches of the lock model process in all.
MaxLockReadings == 2

\* /edge/send-data requests served in one run of the latency model.
MaxTimedRequests == 1

\* /edge/send-data requests served in one run of the pipeline model.
MaxPipeRequests == 2

\* Requests of the cloud model that post something else than the usual data.
MaxOddStores == 1

(* -------------------------- program constants ------------------------- *)

LowLimit == 30
MediumLimit == 70
ForwardLimit == 60
HistoryLimit == 20
MinHistory == 3
TrendWindow == 5
MaxPredicted == 120
MaxDevices == 5
AlertLimit == 80
MonitorLimit == 50
LogLimit == 100
PoolSize == 5
RecentLimit == 10
DefaultDevices == 3
LatencyMin == 10
LatencyMax == 30
CloudLatencyMin == 50
CloudLatencyMax == 100

(* ------------------------------ inputs -------------------------------- *)

\* Vehicle counts of the fog model: the class boundaries, the forwarding
\* boundary and values inside and beyond every class.
Counts == {0, 25, 29, 30, 45, 60, 61, 65, 69, 70, 90, 150, 1000}

\* The reading a fog model run repeats between its odd readings.
UsualCount == 40

\* Vehicle counts of the sequential request model, one per behaviour:
\* Low, Medium filtered, Medium forwarded, the least High, High.
ReqCounts == {10, 45, 65, 70, 80}

\* Vehicle counts of the concurrent model: one filtered, one forwarded.
BatchCounts == {25, 65}

\* Vehicle counts and congestion levels posted to /cloud/store, where the
\* caller chooses both: the action limits and values around them.
StoreCounts == {0, 50, 51, 80, 81, 100}

Levels == {"Low", "Medium", "High"}

\* The vehicle count every worker of the dispatcher model reads: forwarded.
DispatchCount == 65

\* The congestion level the cloud model posts with the usual count.
UsualLevel == "Medium"

None == "None"

(* ------------------------- fog.py: pure parts ------------------------- *)

Min(a, b) == IF a < b THEN a ELSE b

RECURSIVE SumSeq(_)
SumSeq(s) == IF s = <<>> THEN 0 ELSE Head(s) + SumSeq(Tail(s))

LastN(s, n) == IF Len(s) > n THEN SubSeq(s, Len(s) - n + 1, Len(s)) ELSE s

\* Faulty variant: the Low/Medium boundary moved by one (<= instead of <).
calculate_congestion_le(vehicle_count) ==
    IF vehicle_count <= LowLimit THEN "Low"
    ELSE IF vehicle_count < MediumLimit THEN "Medium"
    ELSE "High"

calculate_congestion(vehicle_count) ==
    IF vehicle_count < LowLimit THEN "Low"
    ELSE IF vehicle_count < MediumLimit THEN "Medium"
    ELSE "High"

\* Faulty variant: every reading is forwarded.
should_send_always(congestion_level, vehicle_count) == TRUE

\* Faulty variant: only the High test is kept, the count test is dropped.
should_send_high_only(congestion_level, vehicle_count) ==
    congestion_level = "High"

should_send_to_cloud(congestion_level, vehicle_count) ==
    IF congestion_level = "High" THEN TRUE
    ELSE IF vehicle_count > ForwardLimit THEN TRUE
    ELSE FALSE

\* Faulty variant: the cut keeps the oldest entries instead of the newest.
history_append_keep_oldest(h, vehicle_count) ==
    LET a == Append(h, vehicle_count)
    IN  IF Len(a) > HistoryLimit THEN SubSeq(a, 1, HistoryLimit) ELSE a

\* self.history.append(v); if len > 20: self.history = self.history[-20:]
history_append(h, vehicle_count) ==
    LET a == Append(h, vehicle_count)
    IN  IF Len(a) > HistoryLimit THEN LastN(a, HistoryLimit) ELSE a

\* np.diff of a sequence.
Diff(s) == [i \in 1..(Len(s) - 1) |-> s[i + 1] - s[i]]

\* Faulty variant: the clamp to [0, 120] is left out.
predicted_count_unclamped(h, vehicle_count) ==
    LET recent == LastN(h, TrendWindow)
        d == Len(recent) - 1
    IN  (vehicle_count * d + SumSeq(Diff(recent))) \div d

\* The value _predict_congestion classifies, given the history after the
\* append: vehicle_count + mean(diff(last 5)), clamped to [0, 120], then
\* int().  With d = number of differences the sum v + S/d is (v*d + S)/d; the
\* clamp makes it non-negative, so int() is the floor.
predicted_count(h, vehicle_count) ==
    LET recent == LastN(h, TrendWindow)
        d == Len(recent) - 1
        num == vehicle_count * d + SumSeq(Diff(recent))
    IN  IF num < 0 THEN 0
        ELSE IF num >= MaxPredicted * d THEN MaxPredicted
        ELSE num \div d

\* Faulty variant: the trend is already used from the second reading on.
predict_congestion_from_two(h, vehicle_count) ==
    IF Len(h) < 2 THEN calculate_congestion(vehicle_count)
    ELSE calculate_congestion(predicted_count(h, vehicle_count))

predict_congestion(h, vehicle_count) ==
    IF Len(h) < MinHistory THEN calculate_congestion(vehicle_count)
    ELSE calculate_congestion(predicted_count(h, vehicle_count))


(* ------------------------------- state -------------------------------- *)

VARIABLES
    fog_stats,          \* the fog_stats table: the node's row, if any
    stats_initialized,  \* fog_node._stats_initialized
    history,            \* fog_node.history
    traffic_logs,       \* the traffic_logs table, in commit order
    console_logs,       \* console_logs, each entry by its log_type
    th,                 \* the worker threads of the batch: position and locals
    results,            \* the results list of the batch
    disp,               \* the batch request handler: position and response
    response,           \* the response of the last sequential request
    calls,              \* (history) vehicle counts of the process calls so far
    req,                \* (history) the current request: its kind, get_stats()
                        \* when it began, and whether its store failed
    clears,             \* (history) clear-logs requests served
    last_record_id      \* (history) the record_id of the last store_data
                        \* call that returned, 0 before the first

vars == <<fog_stats, stats_initialized, history, traffic_logs, console_logs,
          th, results, disp, response, calls, req, clears, last_record_id>>

\* FogStats(node_id=...) with the column defaults of models.py.
NewFogStats ==
    [total_processed |-> 0, forwarded_to_cloud |-> 0, filtered_locally |-> 0]

\* FogStats.query.filter_by(node_id=...).first() on the table: a sequence
\* holding the row, or the empty sequence for None.
first(table) == IF table = <<>> THEN <<>> ELSE <<table[1]>>

\* FogNode.get_stats: the row's counters, zeros when there is no row.
get_stats(table) == IF first(table) = <<>> THEN NewFogStats ELSE table[1]

\* fog.py lines 98-102 on the row object the query returned.
count_reading(row, send_to_cloud) ==
    IF send_to_cloud
    THEN [row EXCEPT !.total_processed = @ + 1, !.forwarded_to_cloud = @ + 1]
    ELSE [row EXCEPT !.total_processed = @ + 1, !.filtered_locally = @ + 1]

\* The UPDATE the commit of line 104 sends: the columns assigned on the
\* object (total_processed and one of the other two) take the object's
\* values, the column not assigned keeps what the table holds.
update_row(current, mine, send_to_cloud) ==
    IF send_to_cloud
    THEN [current EXCEPT !.total_processed = mine.total_processed,
                         !.forwarded_to_cloud = mine.forwarded_to_cloud]
    ELSE [current EXCEPT !.total_processed = mine.total_processed,
                         !.filtered_locally = mine.filtered_locally]

\* CloudServer.perform_analytics, the action of the decision table.
\* Faulty variant: the Medium test is tried before the High test.
action_required_monitor_first(congestion_level, vehicle_count) ==
    IF congestion_level = "Medium" \/ vehicle_count > MonitorLimit
    THEN "MONITOR_CLOSELY"
    ELSE IF congestion_level = "High" \/ vehicle_count > AlertLimit
    THEN "ALERT_TRAFFIC_CONTROL"
    ELSE "NO_ACTION"

action_required(congestion_level, vehicle_count) ==
    IF congestion_level = "High" \/ vehicle_count > AlertLimit
    THEN "ALERT_TRAFFIC_CONTROL"
    ELSE IF congestion_level = "Medium" \/ vehicle_count > MonitorLimit
    THEN "MONITOR_CLOSELY"
    ELSE "NO_ACTION"

\* The id the database gives the next traffic_logs row.  The default
\* DATABASE_URL is SQLite (app.py lines 26, 40) and the id column is a plain
\* integer primary key (models.py line 21): the row gets one more than the
\* largest id in the table, 1 in an empty table.  The table is in insert
\* order, so the largest id is the last row's.
next_id(table) == IF table = <<>> THEN 1 ELSE table[Len(table)].id + 1

\* session.add(row); session.commit().
insert(table, row) == Append(table, row @@ [id |-> next_id(table)])

\* The TrafficLog row process_edge_data adds (fog.py lines 84-93).
fog_log(vehicle_count, congestion_level, send_to_cloud) ==
    [vehicle_count |-> vehicle_count, congestion_level |-> congestion_level,
     sent_to_cloud |-> send_to_cloud, cloud_action |-> None]

\* The TrafficLog row store_data adds (cloud.py lines 31-42).
cloud_log(vehicle_count, congestion_level) ==
    [vehicle_count |-> vehicle_count, congestion_level |-> congestion_level,
     sent_to_cloud |-> TRUE,
     cloud_action |-> action_required(congestion_level, vehicle_count)]

\* get_analytics_summary's total_records (cloud.py line 126, the same
\* query as line 49): the rows of traffic_logs whose sent_to_cloud is True.
total_records(table) ==
    Len(SelectSeq(table, LAMBDA row : row.sent_to_cloud))

\* round(total / n, 2) for total >= 0, n > 0, in hundredths: the quotient is
\* rounded to the nearest hundredth, an exact tie going to the even one.
round2(total, n) ==
    LET q == (100 * total) \div n
        r == (100 * total) % n
    IN  IF 2 * r < n THEN q
        ELSE IF 2 * r > n THEN q + 1
        ELSE IF q % 2 = 0 THEN q
        ELSE q + 1

\* TrafficLog.query.order_by(timestamp.desc()).limit(10).all(): the newest
\* rows of the whole table.
recent_logs(table) == LastN(table, RecentLimit)

\* The sum of vehicle_count over rows.
total_count(rows) == SumSeq([i \in 1..Len(rows) |-> rows[i].vehicle_count])

\* Faulty variant: the count is compared with >= instead of >.
trend_of_ge(vehicle_count, rows) ==
    IF rows = <<>> THEN "increasing"
    ELSE IF vehicle_count * Len(rows) >= total_count(rows) THEN "increasing"
    ELSE "decreasing"

\* "increasing" if vehicle_count > average_count else "decreasing", the
\* average being sum / len of the rows, or the count itself without rows.
trend_of(vehicle_count, rows) ==
    IF rows = <<>> THEN "decreasing"
    ELSE IF vehicle_count * Len(rows) > total_count(rows) THEN "increasing"
    ELSE "decreasing"

\* perform_analytics (cloud.py lines 71-107), run against the table as it is
\* before store_data adds its row; average_last_10 is in hundredths.
perform_analytics(table, vehicle_count, congestion_level) ==
    LET rows == recent_logs(table)
    IN  [action_required |-> action_required(congestion_level, vehicle_count),
         average_last_10 |->
             IF rows = <<>> THEN 100 * vehicle_count
             ELSE round2(total_count(rows), Len(rows)),
         trend |-> trend_of(vehicle_count, rows)]

\* What store_data returns (cloud.py lines 64-69).
store_response(table, vehicle_count, congestion_level) ==
    [status |-> "success",
     record_id |-> next_id(table),
     analytics |-> perform_analytics(table, vehicle_count, congestion_level)]

NoCloud == [status |-> None]

\* add_console_log: append, then pop(0) when the length is above 100.
add_console_log(logs, log_type) ==
    LET a == Append(logs, log_type)
    IN  IF Len(a) > LogLimit THEN Tail(a) ELSE a

Threads == 1..MaxDevices

NoThread ==
    [pc |-> "unstarted", vehicle_count |-> 0, found |-> FALSE, snap |-> <<>>,
     recent |-> <<>>,
     send_to_cloud |-> FALSE, congestion_level |-> None,
     cloud_response |-> NoCloud, error |-> None]

NoResponse == [status |-> None]

\* The state of the program after construction (app.py lines 51-61): the
\* tables exist, the node is built, nothing has been logged.  The database
\* outlives the process, so the node's row may be there already.
InitAny(table) ==
    /\ fog_stats = table
    /\ stats_initialized = FALSE
    /\ history = <<>>
    /\ traffic_logs = <<>>
    /\ console_logs = <<>>
    /\ th = [t \in Threads |-> NoThread]
    /\ results = <<>>
    /\ disp = [pc |-> "idle", num_devices |-> 0, selected_devices |-> <<>>,
               readings |-> 0, clears |-> 0, response |-> NoResponse]
    /\ response = NoResponse
    /\ calls = <<>>
    /\ req = [kind |-> None, base |-> NewFogStats, store_failed |-> FALSE]
    /\ clears = 0
    /\ last_record_id = 0

Init == \E table \in {<<>>, <<NewFogStats>>} : InitAny(table)


(* ------------- app.py: the batch endpoint and its workers ------------- *)

\* num_devices = min(data.get('num_devices', 3), 5)
\* Faulty variant: the store is called whatever the fog decided.
store_called_always(fog) == TRUE

\* Faulty variant: the store is never called.
store_called_never(fog) == FALSE

\* if fog_result['send_to_cloud']: (app.py line 128, and line 453 in a
\* batch worker).
store_called(fog) == fog.send_to_cloud

\* dict.get(key, default).
dict_get(data, key, default) ==
    IF key \in DOMAIN data THEN data[key] ELSE default

\* The body of a batch request that asks for a number of devices.
counted(requested) == [num_devices |-> requested]

\* The bodies of the batch requests: a count from 1 to one more than the
\* limit, or no count at all (`request.get_json() or {}`, app.py line 429).
BatchRequests ==
    {counted(requested) : requested \in 1..(MaxDevices + 1)}
        \cup {[key \in {} |-> 0]}

\* Faulty variant: a request without a count gets the largest batch.
num_devices_of_largest_default(data) ==
    Min(dict_get(data, "num_devices", MaxDevices), MaxDevices)

\* num_devices = min(data.get('num_devices', 3), 5) (app.py line 430).
num_devices_of(data) ==
    Min(dict_get(data, "num_devices", DefaultDevices), MaxDevices)

\* Faulty variant: the result replaces the list instead of extending it.
record_result_overwrite(res, entry) == <<entry>>

\* results.append({...}) under the lock (app.py lines 461-471).
record_result(res, entry) == Append(res, entry)

\* Faulty variant: only the first thread is joined.
joined_first_only(threads, n) == threads[1].pc \in {"done", "failed"}

\* for thread in threads: thread.join() has returned for all of them.
joined(threads, n) == \A t \in 1..n : threads[t].pc \in {"done", "failed"}

Started(t) == t \in 1..disp.num_devices /\ disp.pc = "joining"

\* The device pool of app.py line 59.  create_sample_devices is not part of
\* the sources at hand; the pool is taken to hold the five devices the
\* largest batch asks for.
edge_devices == 1..PoolSize

\* Faulty variant: devices drawn with replacement.
sample_with_replacement(pool, n) == [1..n -> pool]

\* random.sample(pool, n): the lists of n different elements of pool.
sample(pool, n) ==
    {s \in [1..n -> pool] : \A i, j \in 1..n : i # j => s[i] # s[j]}

\* The first n devices of the pool, in order.
first_devices(n) == [i \in 1..n |-> i]

\* The request up to the start of the threads (app.py lines 429-487);
\* thread t is started on selected_devices[t].
StartBatch(data, budget, selected_devices) ==
    LET n == num_devices_of(data)
    IN  /\ disp.pc \in {"idle", "returned"}
        /\ disp.readings + n <= budget
        /\ selected_devices \in sample(edge_devices, n)
        /\ disp' = [pc |-> "joining", num_devices |-> n,
                    selected_devices |-> selected_devices,
                    readings |-> disp.readings + n, clears |-> clears,
                    response |-> NoResponse]
        /\ results' = <<>>
        /\ console_logs' = add_console_log(console_logs, "warning")
        /\ th' = [t \in Threads |->
                    IF t <= n THEN [NoThread EXCEPT !.pc = "generate"]
                    ELSE NoThread]
        /\ req' = [kind |-> "batch", base |-> get_stats(fog_stats),
                   store_failed |-> FALSE, data |-> data,
                   requested |->
                       dict_get(data, "num_devices", DefaultDevices)]
        /\ UNCHANGED <<fog_stats, stats_initialized, history, traffic_logs,
                       response, calls, clears, last_record_id>>

\* generate_traffic_data, the log line under the lock and the edge-to-fog
\* sleep (app.py lines 440-449).
Generate(t, v) ==
    /\ Started(t) /\ th[t].pc = "generate"
    /\ th' = [th EXCEPT ![t].vehicle_count = v, ![t].pc = "fog_init"]
    /\ console_logs' = add_console_log(console_logs, "info")
    /\ UNCHANGED <<fog_stats, stats_initialized, history, traffic_logs,
                   results, disp, response, calls, req, clears,
                   last_record_id>>

\* _ensure_stats_initialized, the test and the query (fog.py lines 32-33).
FogInitQuery(t) ==
    /\ Started(t) /\ th[t].pc = "fog_init"
    /\ th' = [th EXCEPT
                ![t].found = ~stats_initialized /\ first(fog_stats) # <<>>,
                ![t].pc = IF stats_initialized THEN "fog_predict"
                          ELSE "fog_init_commit"]
    /\ UNCHANGED <<fog_stats, stats_initialized, history, traffic_logs,
                   console_logs, results, disp, response, calls, req, clears,
                   last_record_id>>

\* _ensure_stats_initialized, the insert and the flag (fog.py lines 34-38).
\* node_id is unique: the commit of a second row for the node raises.
FogInitCommit(t) ==
    /\ Started(t) /\ th[t].pc = "fog_init_commit"
    /\ IF th[t].found
       THEN /\ stats_initialized' = TRUE
            /\ th' = [th EXCEPT ![t].pc = "fog_predict", ![t].found = FALSE]
            /\ UNCHANGED fog_stats
       ELSE IF fog_stats # <<>>
       THEN /\ th' = [th EXCEPT ![t].pc = "except",
                                ![t].error = "IntegrityError"]
            /\ UNCHANGED <<fog_stats, stats_initialized>>
       ELSE /\ fog_stats' = <<NewFogStats>>
            /\ stats_initialized' = TRUE
            /\ th' = [th EXCEPT ![t].pc = "fog_predict"]
    /\ UNCHANGED <<history, traffic_logs, console_logs, results, disp,
                   response, calls, req, clears, last_record_id>>

\* The classification, the prediction with its history update, and the
\* forwarding decision (fog.py lines 56-64).
FogPredict(t) ==
    LET v == th[t].vehicle_count
        level == calculate_congestion(v)
    IN  /\ Started(t) /\ th[t].pc = "fog_predict"
        /\ history' = history_append(history, v)
        /\ calls' = Append(calls, v)
        /\ th' = [th EXCEPT
                    ![t].congestion_level = level,
                    ![t].send_to_cloud = should_send_to_cloud(level, v),
                    ![t].pc = "fog_query"]
        /\ UNCHANGED <<fog_stats, stats_initialized, traffic_logs,
                       console_logs, results, disp, response, req, clears,
                       last_record_id>>

\* session.add(traffic_log) and the query of the node's row (fog.py lines
\* 83-96): the worker's session now holds the row as it read it.
FogQuery(t) ==
    /\ Started(t) /\ th[t].pc = "fog_query"
    /\ th' = [th EXCEPT ![t].snap = first(fog_stats), ![t].pc = "fog_commit"]
    /\ UNCHANGED <<fog_stats, stats_initialized, history, traffic_logs,
                   console_logs, results, disp, response, calls, req, clears,
                   last_record_id>>

\* The increments on the row object and the commit (fog.py lines 97-104).
\* An UPDATE of a row that a clear-logs request deleted after the query
\* matches nothing and the commit raises; the INSERT of the traffic log goes
\* with it.
FogCommit(t) ==
    LET me == th[t]
        logged == insert(traffic_logs,
                         fog_log(me.vehicle_count, me.congestion_level,
                                 me.send_to_cloud))
        next == IF store_called(me) THEN "store" ELSE "append"
    IN  /\ Started(t) /\ me.pc = "fog_commit"
        /\ IF me.snap = <<>>
           THEN /\ traffic_logs' = logged
                /\ th' = [th EXCEPT ![t].pc = next]
                /\ UNCHANGED fog_stats
           ELSE IF fog_stats = <<>>
           THEN /\ th' = [th EXCEPT ![t].pc = "except", ![t].snap = <<>>,
                                    ![t].error = "StaleDataError"]
                /\ UNCHANGED <<fog_stats, traffic_logs>>
           ELSE /\ traffic_logs' = logged
                /\ fog_stats' =
                     <<update_row(fog_stats[1],
                                  count_reading(me.snap[1], me.send_to_cloud),
                                  me.send_to_cloud)>>
                /\ th' = [th EXCEPT ![t].pc = next, ![t].snap = <<>>]
        /\ UNCHANGED <<stats_initialized, history, console_logs, results,
                       disp, response, calls, req, clears, last_record_id>>

\* The fog-to-cloud sleep and cloud_server.store_data (app.py lines
\* 456-459): the commit of cloud.py line 45 stores the row or raises.
Store(t, ok) ==
    LET me == th[t]
    IN  /\ Started(t) /\ me.pc = "store"
        /\ IF ok
           THEN /\ traffic_logs' =
                     insert(traffic_logs,
                            cloud_log(me.vehicle_count, me.congestion_level))
                /\ th' = [th EXCEPT
                            ![t].cloud_response =
                                store_response(traffic_logs,
                                               me.vehicle_count,
                                               me.congestion_level),
                            ![t].pc = "append"]
                /\ last_record_id' = next_id(traffic_logs)
           ELSE /\ th' = [th EXCEPT ![t].pc = "except",
                                    ![t].error = "StoreError"]
                /\ UNCHANGED <<traffic_logs, last_record_id>>
        /\ UNCHANGED <<fog_stats, stats_initialized, history, console_logs,
                       results, disp, response, calls, req, clears>>

\* with lock: results.append({...}) (app.py lines 461-471).
AppendResult(t) ==
    LET me == th[t]
    IN  /\ Started(t) /\ me.pc = "append"
        /\ results' = record_result(results,
                        [device |-> disp.selected_devices[t],
                         vehicle_count |-> me.vehicle_count,
                         send_to_cloud |-> me.send_to_cloud,
                         cloud_response |-> me.cloud_response])
        /\ th' = [th EXCEPT ![t].pc = "done"]
        /\ UNCHANGED <<fog_stats, stats_initialized, history, traffic_logs,
                       console_logs, disp, response, calls, req, clears,
                       last_record_id>>

\* except Exception: the error is logged under the lock (app.py lines
\* 473-475); nothing is added to results.
Except(t) ==
    /\ Started(t) /\ th[t].pc = "except"
    /\ console_logs' = add_console_log(console_logs, "error")
    /\ th' = [th EXCEPT ![t].pc = "failed"]
    /\ UNCHANGED <<fog_stats, stats_initialized, history, traffic_logs,
                   results, disp, response, calls, req, clears,
                   last_record_id>>

\* The joins, the closing log line and the response (app.py lines 489-502).
JoinAll ==
    /\ disp.pc = "joining"
    /\ joined(th, disp.num_devices)
    /\ console_logs' = add_console_log(console_logs, "success")
    /\ disp' = [disp EXCEPT
                  !.pc = "returned",
                  !.response = [status |-> "success",
                                num_devices |-> disp.num_devices,
                                results |-> results]]
    /\ UNCHANGED <<fog_stats, stats_initialized, history, traffic_logs, th,
                   results, response, calls, req, clears, last_record_id>>

\* clear_logs (app.py lines 246-269): console_logs is rebound to an empty
\* list and every row of both tables is deleted.  The node object is not
\* touched.
ClearLogs ==
    /\ clears < MaxClears
    /\ console_logs' = <<>>
    /\ traffic_logs' = <<>>
    /\ fog_stats' = <<>>
    /\ clears' = clears + 1
    /\ response' = [status |-> "success", message |-> "Logs and data cleared"]
    /\ req' = [kind |-> "clear", base |-> get_stats(fog_stats),
               store_failed |-> FALSE]
    /\ UNCHANGED <<stats_initialized, history, th, results, disp, calls,
                   last_record_id>>

\* The concurrent model: batch requests whose workers interleave step by
\* step, and clear-logs requests, which it serves between batches.  No
\* step of a worker depends on which device it serves, so the sample is
\* taken to be the first devices of the pool here; the dispatcher model
\* below draws every sample.
BatchNext(budget) ==
    \/ \E requested \in 1..(MaxDevices + 1) :
         StartBatch(counted(requested), budget,
                    first_devices(num_devices_of(counted(requested))))
    \/ \E t \in Threads, v \in BatchCounts : Generate(t, v)
    \/ \E t \in Threads : FogInitQuery(t)
    \/ \E t \in Threads : FogInitCommit(t)
    \/ \E t \in Threads : FogPredict(t)
    \/ \E t \in Threads : FogQuery(t)
    \/ \E t \in Threads : FogCommit(t)
    \/ \E t \in Threads, ok \in BOOLEAN : Store(t, ok)
    \/ \E t \in Threads : AppendResult(t)
    \/ \E t \in Threads : Except(t)
    \/ JoinAll
    \/ disp.pc # "joining" /\ ClearLogs

Next == BatchNext(MaxReadings)

Spec == Init /\ [][Next]_vars

RaceNext == BatchNext(MaxRaceReadings)

SpecRace == Init /\ [][RaceNext]_vars


(* --------------- the request handlers, one request at a time ---------- *)

\* _ensure_stats_initialized when no other request runs (fog.py lines
\* 32-38): the row is added when the flag is unset and no row is found.
ensure_stats(table, initialized) ==
    IF ~initialized /\ first(table) = <<>> THEN <<NewFogStats>> ELSE table

\* The table after fog.py lines 96-104 when no other request runs.
commit_stats(table, send_to_cloud) ==
    IF first(table) = <<>> THEN table
    ELSE <<update_row(table[1], count_reading(table[1], send_to_cloud),
                      send_to_cloud)>>

\* What process_edge_data returns (fog.py lines 126-132), given the history
\* after the append of _predict_congestion.
fog_result(vehicle_count, h) ==
    LET level == calculate_congestion(vehicle_count)
        send == should_send_to_cloud(level, vehicle_count)
    IN  [status |-> "success",
         vehicle_count |-> vehicle_count,
         congestion_level |-> level,
         predicted_congestion |-> predict_congestion(h, vehicle_count),
         send_to_cloud |-> send,
         fog_decision |-> IF send THEN "Forward to Cloud"
                          ELSE "Handle Locally"]

\* FogNode.process_edge_data as one step: its effect on the node and on
\* the two tables.
ProcessEdgeData(v) ==
    LET r == fog_result(v, history_append(history, v))
    IN  /\ stats_initialized' = TRUE
        /\ history' = history_append(history, v)
        /\ fog_stats' = commit_stats(ensure_stats(fog_stats, stats_initialized),
                                     r.send_to_cloud)
        /\ calls' = Append(calls, v)

\* A reading with every field, as a device generates it.
reading(vehicle_count) ==
    [vehicle_count |-> vehicle_count, device_id |-> "EDGE_001",
     location |-> "Main Street"]

\* Readings posted to /fog/process with fields missing: without the count,
\* with the count only, without the location.
PartialReadings ==
    {[device_id |-> "EDGE_001", location |-> "Main Street"],
     [vehicle_count |-> 65],
     [vehicle_count |-> 25, device_id |-> "EDGE_001"]}

\* Faulty variant: a missing count is read as 30.
with_defaults_wrong_count(edge_data) ==
    [vehicle_count |-> dict_get(edge_data, "vehicle_count", 30),
     location |-> dict_get(edge_data, "location", "Unknown"),
     device_id |-> dict_get(edge_data, "device_id", "Unknown")]

\* The three fields process_edge_data reads (fog.py lines 56-58).
with_defaults(edge_data) ==
    [vehicle_count |-> dict_get(edge_data, "vehicle_count", 0),
     location |-> dict_get(edge_data, "location", "Unknown"),
     device_id |-> dict_get(edge_data, "device_id", "Unknown")]

\* /fog/process (app.py lines 169-188) with a JSON body that is not empty;
\* the response carries device_id and location as processed_data does
\* (fog.py lines 70-73).
FogProcess(edge_data) ==
    LET d == with_defaults(edge_data)
        v == d.vehicle_count
        r == fog_result(v, history_append(history, v))
    IN  /\ ProcessEdgeData(v)
        /\ traffic_logs' =
             insert(traffic_logs,
                    fog_log(v, r.congestion_level, r.send_to_cloud))
        /\ response' = r @@ [device_id |-> d.device_id,
                             location |-> d.location]
        /\ req' = [kind |-> "fog", base |-> get_stats(fog_stats),
                   store_failed |-> FALSE, data |-> edge_data]
        /\ UNCHANGED <<console_logs, th, results, disp, clears,
                       last_record_id>>

\* Faulty variant: the handler answers success although store_data raised.
send_data_failure_swallowed(fog, message) ==
    [status |-> "success", fog_result |-> fog, cloud_response |-> NoCloud]

\* The except branch of edge_send_data (app.py lines 164-166).
send_data_failure(fog, message) ==
    [status |-> "error", message |-> message]

\* random.randint(a, b): any integer from a to b, both included.
randint(a, b) == a..b

\* The draws that the models take from randint(a, b): both ends and the
\* middle.
some_randint(a, b) ==
    {n \in randint(a, b) : n \in {a, (a + b) \div 2, b}}

\* The three draws of one /edge/send-data request: fog.py line 68, app.py
\* line 110 and app.py line 129.
Draws ==
    [fog_latency : some_randint(LatencyMin, LatencyMax),
     edge_to_fog_latency : some_randint(LatencyMin, LatencyMax),
     fog_to_cloud_latency : some_randint(CloudLatencyMin, CloudLatencyMax)]

\* The draws of the requests whose latencies no property looks at.
UsualDraws ==
    [fog_latency |-> LatencyMin, edge_to_fog_latency |-> LatencyMin,
     fog_to_cloud_latency |-> CloudLatencyMin]

\* Faulty variant: the fog-to-cloud draw is reported for every reading.
fog_to_cloud_ms_always(send_to_cloud, draw) == draw

\* fog_to_cloud_latency (app.py lines 126-129): 0 unless the reading is
\* forwarded, and then the draw.
fog_to_cloud_ms(send_to_cloud, draw) == IF send_to_cloud THEN draw ELSE 0

\* The latency part of the response (app.py lines 149, 156-160).
latency(send_to_cloud, draws) ==
    LET edge_to_fog == draws.edge_to_fog_latency
        fog_to_cloud == fog_to_cloud_ms(send_to_cloud,
                                        draws.fog_to_cloud_latency)
    IN  [edge_to_fog_ms |-> edge_to_fog,
         fog_to_cloud_ms |-> fog_to_cloud,
         total_ms |-> edge_to_fog + fog_to_cloud]

\* The response of edge_send_data (app.py lines 151-162); the fog result
\* carries the fog's own latency draw (fog.py lines 68, 131).
send_data_response(fog, cloud, draws) ==
    [status |-> "success",
     fog_result |-> fog @@ [latency_ms |-> draws.fog_latency],
     cloud_response |-> cloud,
     latency |-> latency(store_called(fog), draws)]

\* The console lines of one edge_send_data request, in order (app.py lines
\* 105, 113, 120, then 132 and 139, or 144, or 165 after a failed store).
send_data_logs(send_to_cloud, ok) ==
    <<"info", "success", "info">> \o
    (IF ~send_to_cloud THEN <<"success">>
     ELSE IF ok THEN <<"warning", "warning">>
     ELSE <<"warning", "error">>)

RECURSIVE add_console_logs(_, _)
add_console_logs(logs, types) ==
    IF types = <<>> THEN logs
    ELSE add_console_logs(add_console_log(logs, Head(types)), Tail(types))

\* /edge/send-data (app.py lines 92-166): the reading, the fog pass and,
\* when the fog forwards, the cloud store, whose commit stores or raises.
EdgeSendData(v, ok, draws) ==
    LET r == fog_result(v, history_append(history, v))
        send == store_called(r)
        logged == insert(traffic_logs,
                         fog_log(v, r.congestion_level, r.send_to_cloud))
    IN  /\ (~send => ok)
        /\ ProcessEdgeData(v)
        /\ console_logs' =
             add_console_logs(console_logs, send_data_logs(send, ok))
        /\ traffic_logs' =
             IF send /\ ok
             THEN insert(logged, cloud_log(v, r.congestion_level))
             ELSE logged
        /\ response' =
             IF ~send THEN send_data_response(r, NoCloud, draws)
             ELSE IF ok
             THEN send_data_response(
                      r, store_response(logged, v, r.congestion_level),
                      draws)
             ELSE send_data_failure(r, "StoreError")
        /\ last_record_id' =
             IF send /\ ok THEN next_id(logged) ELSE last_record_id
        /\ req' = [kind |-> "send", base |-> get_stats(fog_stats),
                   store_failed |-> send /\ ~ok]
        /\ UNCHANGED <<th, results, disp, clears>>

Served == Len(calls) + clears

ReqNext ==
    \/ \E v \in ReqCounts : Served < MaxRequests /\ FogProcess(reading(v))
    \/ \E v \in ReqCounts, ok \in BOOLEAN :
         Served < MaxRequests /\ EdgeSendData(v, ok, UsualDraws)
    \/ Served < MaxRequests /\ ClearLogs

SpecReq == Init /\ [][ReqNext]_vars

\* The latency model: /edge/send-data requests with every draw of Draws.
LatencyNext ==
    \E v \in ReqCounts, ok \in BOOLEAN, draws \in Draws :
        Len(calls) < MaxTimedRequests /\ EdgeSendData(v, ok, draws)

SpecLatency == Init /\ [][LatencyNext]_vars

\* The pipeline model: /edge/send-data requests whose reading has any of
\* the counts of Counts, the class and forwarding boundaries among them.
PipeNext ==
    \E v \in Counts, ok \in BOOLEAN :
        Len(calls) < MaxPipeRequests /\ EdgeSendData(v, ok, UsualDraws)

SpecPipe == Init /\ [][PipeNext]_vars

\* Readings of the run that are not the usual one.
Odd == Cardinality({i \in 1..Len(calls) : calls[i] # UsualCount})

FogNext ==
    \/ Len(calls) < MaxFogCalls /\ FogProcess(reading(UsualCount))
    \/ \E v \in Counts \ {UsualCount} :
         Len(calls) < MaxFogCalls /\ Odd < MaxOdd /\ FogProcess(reading(v))
    \/ \E edge_data \in PartialReadings :
         Len(calls) < MaxFogCalls /\ Odd < MaxOdd /\ FogProcess(edge_data)

SpecFog == Init /\ [][FogNext]_vars

(* -------- fog.py: _predict_congestion called from two threads ---------- *)

\* Two batch workers inside fog_node.process_edge_data at the same time
\* (app.py line 451 is outside the lock); the node and its history are
\* shared by all of them (app.py line 58).
Predictors == {1, 2}

\* _predict_congestion calls begun so far; a call's vehicle count is its
\* number, so that every entry of the history tells which call appended it.
Predicts == IF req.kind = "predict" THEN req.predicts ELSE 0

\* Faulty variant: the cut is taken whenever the history has two entries.
needs_cut_always(h) == Len(h) > 1

\* if len(self.history) > 20: (fog.py line 185).
needs_cut(h) == Len(h) > HistoryLimit

\* self.history.append(vehicle_count) (fog.py line 183).
HistAppend(t) ==
    /\ th[t].pc = "unstarted"
    /\ Predicts < MaxPredicts
    /\ history' = Append(history, Predicts + 1)
    /\ th' = [th EXCEPT ![t].pc = "hist_check",
                        ![t].vehicle_count = Predicts + 1]
    /\ req' = [kind |-> "predict", predicts |-> Predicts + 1]
    /\ UNCHANGED <<fog_stats, stats_initialized, traffic_logs, console_logs,
                   results, disp, response, calls, clears, last_record_id>>

\* The length test and, when it holds, the slice self.history[-20:], which
\* builds a new list (fog.py lines 185-186).  Without a cut the call goes on
\* to read the history and returns its prediction (fog.py lines 188-203).
HistCheck(t) ==
    /\ th[t].pc = "hist_check"
    /\ th' = IF needs_cut(history)
             THEN [th EXCEPT ![t].pc = "hist_assign",
                             ![t].recent = LastN(history, HistoryLimit)]
             ELSE [th EXCEPT ![t].pc = "unstarted",
                             ![t].congestion_level =
                                 predict_congestion(history,
                                                    th[t].vehicle_count)]
    /\ UNCHANGED <<fog_stats, stats_initialized, history, traffic_logs,
                   console_logs, results, disp, response, calls, req, clears,
                   last_record_id>>

\* self.history = <the slice> (fog.py line 186): the attribute is rebound to
\* the new list; what other calls appended to the old list since the slice
\* was taken is not in it.  Then the prediction, as above.
HistAssign(t) ==
    /\ th[t].pc = "hist_assign"
    /\ history' = th[t].recent
    /\ th' = [th EXCEPT ![t].pc = "unstarted", ![t].recent = <<>>,
                        ![t].congestion_level =
                            predict_congestion(th[t].recent,
                                               th[t].vehicle_count)]
    /\ UNCHANGED <<fog_stats, stats_initialized, traffic_logs, console_logs,
                   results, disp, response, calls, req, clears,
                   last_record_id>>

HistNext ==
    \/ \E t \in Predictors : HistAppend(t)
    \/ \E t \in Predictors : HistCheck(t)
    \/ \E t \in Predictors : HistAssign(t)

SpecHist == Init /\ [][HistNext]_vars

(* ---------- app.py: add_console_log called from two threads ------------ *)

\* Two threads that call add_console_log without a common lock: the handler
\* threads of two requests the threaded server runs side by side, or the
\* workers of two batches, whose locks are per request (app.py line 434).
Loggers == {1, 2}

\* add_console_log calls begun so far; a call's entry is its number.
Appends == IF req.kind = "log" THEN req.appends ELSE 0

InLog(t) == th[t].pc \in {"log_check", "log_pop"}

\* console_logs.append({...}) (app.py lines 74-78).
LogAppend(t) ==
    /\ th[t].pc = "unstarted"
    /\ Appends < MaxAppends
    /\ console_logs' = Append(console_logs, Appends + 1)
    /\ th' = [th EXCEPT ![t].pc = "log_check"]
    /\ req' = [kind |-> "log", appends |-> Appends + 1]
    /\ UNCHANGED <<fog_stats, stats_initialized, history, traffic_logs,
                   results, disp, response, calls, clears, last_record_id>>

\* if len(console_logs) > 100: (app.py line 79); the call returns when the
\* test fails.
LogCheck(t) ==
    /\ th[t].pc = "log_check"
    /\ th' = [th EXCEPT ![t].pc = IF Len(console_logs) > LogLimit
                                  THEN "log_pop" ELSE "unstarted"]
    /\ UNCHANGED <<fog_stats, stats_initialized, history, traffic_logs,
                   console_logs, results, disp, response, calls, req, clears,
                   last_record_id>>

\* console_logs.pop(0) (app.py line 80), after which the call returns.  The
\* list is never empty here: no clear-logs request runs in this model.
LogPop(t) ==
    /\ th[t].pc = "log_pop"
    /\ console_logs' = Tail(console_logs)
    /\ th' = [th EXCEPT ![t].pc = "unstarted"]
    /\ UNCHANGED <<fog_stats, stats_initialized, history, traffic_logs,
                   results, disp, response, calls, req, clears,
                   last_record_id>>

LogNext ==
    \/ \E t \in Loggers : LogAppend(t)
    \/ \E t \in Loggers : LogCheck(t)
    \/ \E t \in Loggers : LogPop(t)

SpecLog == Init /\ [][LogNext]_vars

(* --------------- app.py: the dispatcher of one batch ------------------- *)

\* process_device (app.py lines 436-475) run without interruption: the
\* reading and its log line, the fog pass, the store when the fog forwards,
\* then the result under the lock, or the error line when the store raised.
ProcessDevice(t, v, ok) ==
    LET r == fog_result(v, history_append(history, v))
        send == store_called(r)
        logged == insert(traffic_logs,
                         fog_log(v, r.congestion_level, r.send_to_cloud))
        cloud == IF send THEN store_response(logged, v, r.congestion_level)
                 ELSE NoCloud
    IN  /\ Started(t) /\ th[t].pc = "generate"
        /\ (~send => ok)
        /\ ProcessEdgeData(v)
        /\ traffic_logs' =
             IF send /\ ok
             THEN insert(logged, cloud_log(v, r.congestion_level))
             ELSE logged
        /\ console_logs' =
             add_console_logs(console_logs,
                              IF ok THEN <<"info">> ELSE <<"info", "error">>)
        /\ results' =
             IF ok
             THEN record_result(results,
                    [device |-> disp.selected_devices[t],
                     vehicle_count |-> v, send_to_cloud |-> r.send_to_cloud,
                     cloud_response |-> cloud])
             ELSE results
        /\ th' = [th EXCEPT
                    ![t].vehicle_count = v,
                    ![t].congestion_level = r.congestion_level,
                    ![t].send_to_cloud = r.send_to_cloud,
                    ![t].cloud_response = IF ok THEN cloud ELSE NoCloud,
                    ![t].error = IF ok THEN None ELSE "StoreError",
                    ![t].pc = IF ok THEN "done" ELSE "failed"]
        /\ last_record_id' =
             IF send /\ ok THEN next_id(logged) ELSE last_record_id
        /\ UNCHANGED <<disp, response, req, clears>>

\* The dispatcher model: one batch request with any body of BatchRequests and
\* any sample of the pool.  The start loop starts the threads in list
\* order; this model follows the schedules in which each worker has ended
\* before the next one takes its first step.
DispatchNext ==
    \/ /\ disp.pc = "idle"
       /\ \E data \in BatchRequests :
            \E selected \in sample(edge_devices, num_devices_of(data)) :
               StartBatch(data, MaxDevices, selected)
    \/ \E t \in Threads, ok \in BOOLEAN :
         /\ joined(th, t - 1)
         /\ ProcessDevice(t, DispatchCount, ok)
    \/ JoinAll

SpecDispatch == Init /\ [][DispatchNext]_vars

(* ------------------- app.py: /cloud/store, direct ---------------------- *)

\* /cloud/store requests served so far, and those that posted odd data.
StoresServed == IF req.kind = "store" THEN req.served ELSE 0

OddStores == IF req.kind = "store" THEN req.odd ELSE 0

\* /cloud/store (app.py lines 191-210) with a JSON body carrying both
\* fields: store_data analyses, adds its row and commits, or the commit
\* raises and the handler answers with the error.
CloudStore(v, level, ok) ==
    /\ traffic_logs' =
         IF ok THEN insert(traffic_logs, cloud_log(v, level))
         ELSE traffic_logs
    /\ response' =
         IF ok THEN store_response(traffic_logs, v, level)
         ELSE [status |-> "error", message |-> "StoreError"]
    /\ last_record_id' =
         IF ok THEN next_id(traffic_logs) ELSE last_record_id
    /\ req' = [kind |-> "store", vehicle_count |-> v,
               congestion_level |-> level, store_failed |-> ~ok,
               served |-> StoresServed + 1,
               odd |-> OddStores +
                       (IF v = UsualCount /\ level = UsualLevel
                        THEN 0 ELSE 1)]
    /\ UNCHANGED <<fog_stats, stats_initialized, history, console_logs, th,
                   results, disp, calls, clears>>

CloudNext ==
    \/ \E ok \in BOOLEAN :
         StoresServed < MaxStores /\ CloudStore(UsualCount, UsualLevel, ok)
    \/ \E v \in StoreCounts, level \in Levels :
         /\ StoresServed < MaxStores
         /\ OddStores < MaxOddStores
         /\ CloudStore(v, level, TRUE)

SpecCloud == Init /\ [][CloudNext]_vars


(* ------ app.py: the workers of a batch, their lock and their delays ---- *)

\* lock = threading.Lock() (app.py line 434) has no variable of its own: a
\* worker holds it exactly while it is inside one of the three with-lock
\* blocks of process_device (app.py lines 442-446, 461-471, 474-475).
HeldPcs == {"log_held", "append_held", "except_held"}

\* Faulty variant: the sleeps are taken inside the with-lock block.
holds_lock_in_delay(pc) ==
    pc \in HeldPcs \cup {"delay_fog", "delay_cloud"}

\* Faulty variant: the error path ends without giving the lock back.
holds_lock_after_failure(pc) == pc \in HeldPcs \cup {"failed"}

holds_lock(pc) == pc \in HeldPcs

lock_holders == {t \in Threads : holds_lock(th[t].pc)}

\* time.sleep of app.py line 449 or line 456 is running.
InDelay(t) == th[t].pc \in {"delay_fog", "delay_cloud"}

\* edge_data = device.generate_traffic_data() (app.py line 440).
GenerateData(t, v) ==
    /\ Started(t) /\ th[t].pc = "generate"
    /\ th' = [th EXCEPT ![t].vehicle_count = v, ![t].pc = "log_wait"]
    /\ UNCHANGED <<fog_stats, stats_initialized, history, traffic_logs,
                   console_logs, results, disp, response, calls, req, clears,
                   last_record_id>>

\* with lock: the acquire (app.py lines 442, 461, 474) returns when no
\* thread holds the lock.
AcquireLock(t) ==
    /\ Started(t)
    /\ th[t].pc \in {"log_wait", "append_wait", "except_wait"}
    /\ lock_holders = {}
    /\ th' = [th EXCEPT
                ![t].pc = CASE th[t].pc = "log_wait" -> "log_held"
                            [] th[t].pc = "append_wait" -> "append_held"
                            [] OTHER -> "except_held"]
    /\ UNCHANGED <<fog_stats, stats_initialized, history, traffic_logs,
                   console_logs, results, disp, response, calls, req, clears,
                   last_record_id>>

\* The log line of the reading and the release of the lock (app.py lines
\* 443-446); the worker goes on to its edge-to-fog sleep (lines 448-449).
LogReading(t) ==
    /\ Started(t) /\ th[t].pc = "log_held"
    /\ console_logs' = add_console_log(console_logs, "info")
    /\ th' = [th EXCEPT ![t].pc = "delay_fog"]
    /\ UNCHANGED <<fog_stats, stats_initialized, history, traffic_logs,
                   results, disp, response, calls, req, clears,
                   last_record_id>>

\* time.sleep returns (app.py line 449, line 456).
Delay(t) ==
    /\ Started(t) /\ InDelay(t)
    /\ th' = [th EXCEPT
                ![t].pc = IF th[t].pc = "delay_fog" THEN "fog" ELSE "cloud"]
    /\ UNCHANGED <<fog_stats, stats_initialized, history, traffic_logs,
                   console_logs, results, disp, response, calls, req, clears,
                   last_record_id>>

\* fog_result = fog_node.process_edge_data(edge_data) (app.py line 451),
\* then the test of line 453; a forwarded reading goes to the fog-to-cloud
\* sleep of lines 455-456.
FogPass(t) ==
    LET v == th[t].vehicle_count
        r == fog_result(v, history_append(history, v))
    IN  /\ Started(t) /\ th[t].pc = "fog"
        /\ ProcessEdgeData(v)
        /\ traffic_logs' =
             insert(traffic_logs,
                    fog_log(v, r.congestion_level, r.send_to_cloud))
        /\ th' = [th EXCEPT
                    ![t].congestion_level = r.congestion_level,
                    ![t].send_to_cloud = r.send_to_cloud,
                    ![t].pc = IF store_called(r) THEN "delay_cloud"
                              ELSE "append_wait"]
        /\ UNCHANGED <<console_logs, results, disp, response, req, clears,
                       last_record_id>>

\* cloud_response = cloud_server.store_data(...) (app.py line 457); a store
\* that raises takes the worker to the except block.
CloudPass(t, ok) ==
    LET me == th[t]
    IN  /\ Started(t) /\ me.pc = "cloud"
        /\ traffic_logs' =
             IF ok
             THEN insert(traffic_logs,
                         cloud_log(me.vehicle_count, me.congestion_level))
             ELSE traffic_logs
        /\ last_record_id' =
             IF ok THEN next_id(traffic_logs) ELSE last_record_id
        /\ th' = [th EXCEPT
                    ![t].cloud_response =
                        IF ok
                        THEN store_response(traffic_logs, me.vehicle_count,
                                            me.congestion_level)
                        ELSE NoCloud,
                    ![t].error = IF ok THEN None ELSE "StoreError",
                    ![t].pc = IF ok THEN "append_wait" ELSE "except_wait"]
        /\ UNCHANGED <<fog_stats, stats_initialized, history, console_logs,
                       results, disp, response, calls, req, clears>>

\* results.append({...}) and the release of the lock (app.py lines 462-471).
AppendLocked(t) ==
    LET me == th[t]
    IN  /\ Started(t) /\ me.pc = "append_held"
        /\ results' = record_result(results,
                        [device |-> disp.selected_devices[t],
                         vehicle_count |-> me.vehicle_count,
                         send_to_cloud |-> me.send_to_cloud,
                         cloud_response |-> me.cloud_response])
        /\ th' = [th EXCEPT ![t].pc = "done"]
        /\ UNCHANGED <<fog_stats, stats_initialized, history, traffic_logs,
                       console_logs, disp, response, calls, req, clears,
                       last_record_id>>

\* The error line and the release of the lock (app.py line 475).
ExceptLocked(t) ==
    /\ Started(t) /\ th[t].pc = "except_held"
    /\ console_logs' = add_console_log(console_logs, "error")
    /\ th' = [th EXCEPT ![t].pc = "failed"]
    /\ UNCHANGED <<fog_stats, stats_initialized, history, traffic_logs,
                   results, disp, response, calls, req, clears,
                   last_record_id>>

\* The next step of worker t, whatever it is.
WorkerStep(t) ==
    \/ \E v \in BatchCounts : GenerateData(t, v)
    \/ AcquireLock(t)
    \/ LogReading(t)
    \/ Delay(t)
    \/ FogPass(t)
    \/ \E ok \in BOOLEAN : CloudPass(t, ok)
    \/ AppendLocked(t)
    \/ ExceptLocked(t)

\* The lock model: batch requests whose workers take the lock, sleep and
\* call the fog and the cloud, each call in one step.
LockNext ==
    \/ \E requested \in 1..(MaxDevices + 1) :
         StartBatch(counted(requested), MaxLockReadings,
                    first_devices(num_devices_of(counted(requested))))
    \/ \E t \in Threads, v \in BatchCounts : GenerateData(t, v)
    \/ \E t \in Threads : AcquireLock(t)
    \/ \E t \in Threads : LogReading(t)
    \/ \E t \in Threads : Delay(t)
    \/ \E t \in Threads : FogPass(t)
    \/ \E t \in Threads, ok \in BOOLEAN : CloudPass(t, ok)
    \/ \E t \in Threads : AppendLocked(t)
    \/ \E t \in Threads : ExceptLocked(t)
    \/ JoinAll

SpecLock == Init /\ [][LockNext]_vars

\* The scheduler lets every thread that can run take a step in the end: a
\* worker whose next step stays possible takes it, and so does the request
\* thread at its joins.
SpecLockFair ==
    /\ SpecLock
    /\ \A t \in Threads : WF_vars(WorkerStep(t))
    /\ WF_vars(JoinAll)

(* ------------------------------ claims -------------------------------- *)

Stats == get_stats(fog_stats)

Workers == 1..disp.num_devices

Returned == disp.pc = "returned"

\* C1: in every reachable state, also while several workers are inside
\* process_edge_data, total_processed = forwarded_to_cloud + filtered_locally.
C1_CountersAgree ==
    Stats.total_processed = Stats.forwarded_to_cloud + Stats.filtered_locally

\* C2: when a batch of N workers has returned with no worker failing (and no
\* clear-logs request served), total_processed is N above its value at the
\* start of the batch, and so is forwarded_to_cloud + filtered_locally.
C2_BatchCountsEveryWorker ==
    (/\ Returned
     /\ clears = 0
     /\ \A t \in Workers : th[t].pc = "done")
    => /\ Stats.total_processed = req.base.total_processed + disp.num_devices
       /\ Stats.forwarded_to_cloud + Stats.filtered_locally =
            req.base.forwarded_to_cloud + req.base.filtered_locally
            + disp.num_devices

\* C3: from one state to the next, unless a clear-logs request is served,
\* none of the three counters decreases.
C3_CountersNeverDecrease ==
    [][clears' = clears =>
         LET new == get_stats(fog_stats')
         IN  /\ new.total_processed >= Stats.total_processed
             /\ new.forwarded_to_cloud >= Stats.forwarded_to_cloud
             /\ new.filtered_locally >= Stats.filtered_locally]_vars

\* C4: the response of a batch holds one result entry for every requested
\* device, also when a worker failed.
C4_OneResultPerDevice ==
    Returned => Len(disp.response.results) = disp.response.num_devices

HasResult(t) ==
    \E i \in DOMAIN disp.response.results :
        /\ disp.response.results[i].device = t
        /\ disp.response.results[i].vehicle_count = th[t].vehicle_count
        /\ disp.response.results[i].send_to_cloud = th[t].send_to_cloud

\* C5: when the batch returns, every worker that raised nothing has run to
\* its end and its result is in the returned results, whatever happened to
\* the other workers.
C5_FailureIsolated ==
    Returned =>
        \A t \in Workers :
            th[t].error = None => th[t].pc = "done" /\ HasResult(t)

\* C5 witness: a batch returned in which one worker's store raised and
\* another worker's result is in the response.
C5_Witness ==
    /\ Returned
    /\ \E t1, t2 \in Workers :
         /\ th[t1].error = "StoreError" /\ th[t1].pc = "failed"
         /\ th[t2].error = None /\ HasResult(t2)

\* C6: when the store of a single-device pipeline fails, the response has
\* status error and carries no cloud record.
C6_StoreFailureReported ==
    (req.kind = "send" /\ req.store_failed)
    => /\ response.status = "error"
       /\ "cloud_response" \notin DOMAIN response

\* C6 witness: a forwarded reading whose store failed was answered.
C6_Witness ==
    /\ req.kind = "send" /\ req.store_failed
    /\ response.status = "error"
    /\ calls # <<>> /\ calls[Len(calls)] > ForwardLimit

\* C7: a batch of one worker whose reading is forwarded and whose store
\* fails leaves the counters as they were when the batch began.
C7_FailedStoreLeavesCounters ==
    (/\ Returned
     /\ disp.num_devices = 1
     /\ th[1].error = "StoreError")
    => Stats = req.base

\* C8: the level process returns is Low below 30, Medium from 30 to 69 and
\* High from 70, whatever the history and the counters are.
C8_Classification ==
    response.status = "success" =>
        response.congestion_level =
            (IF response.vehicle_count < 30 THEN "Low"
             ELSE IF response.vehicle_count < 70 THEN "Medium"
             ELSE "High")

\* C8 witness: a reading of exactly 30, after earlier readings, came back
\* Medium.
C8_Witness ==
    /\ response.status = "success"
    /\ response.vehicle_count = 30
    /\ response.congestion_level = "Medium"
    /\ Len(history) >= 3
    /\ Stats.total_processed >= 3

\* C9: process returns send_to_cloud exactly when the level is High or the
\* count is above 60, which is exactly when the count is above 60.
C9_ForwardDecision ==
    response.status = "success" =>
        /\ response.send_to_cloud <=>
             (response.congestion_level = "High"
              \/ response.vehicle_count > 60)
        /\ response.send_to_cloud <=> response.vehicle_count > 60

\* C9 witness: a Medium reading of 65 was forwarded after earlier readings.
C9_Witness ==
    /\ response.status = "success"
    /\ response.vehicle_count = 65
    /\ response.congestion_level = "Medium"
    /\ response.send_to_cloud
    /\ Len(history) >= 3

\* C10: after k sequential process calls the history is the vehicle counts
\* of the last min(20, k) calls in arrival order, never longer than 20.
C10_HistoryWindow ==
    LET k == Len(calls)
        n == IF k < 20 THEN k ELSE 20
    IN  /\ Len(history) = n
        /\ \A i \in 1..n : history[i] = calls[k - n + i]

\* C10 witness: the 21st call has returned and the entry it evicted, the
\* first reading, differs from every reading kept.
C10_Witness ==
    /\ Len(calls) = 21
    /\ Len(history) = 20
    /\ calls[1] # UsualCount
    /\ \A i \in 1..20 : history[i] = UsualCount

(* C11: once the history, the current count included, has three entries or
   more, predicted_congestion is the class of the current count plus the mean
   step of the last (at most five) history entries, clamped to [0, 120]; the
   classified value never leaves [0, 120].  The mean of the consecutive
   differences of a window is (last - first) / (entries - 1), so the clamped
   value lies below a limit L <= 120 exactly when
   count * (entries - 1) + last - first < L * (entries - 1). *)
C11_TrendPrediction ==
    (response.status = "success" /\ Len(history) >= 3) =>
        LET v == response.vehicle_count
            n == Len(history)
            m == IF n < 5 THEN n ELSE 5
            steps == m - 1
            num == v * steps + history[n] - history[n - m + 1]
            classified == predicted_count(history, v)
        IN  /\ response.predicted_congestion =
                   (IF num < 30 * steps THEN "Low"
                    ELSE IF num < 70 * steps THEN "Medium"
                    ELSE "High")
            /\ classified >= 0
            /\ classified <= 120
            /\ response.predicted_congestion =
                   (IF classified < 30 THEN "Low"
                    ELSE IF classified < 70 THEN "Medium"
                    ELSE "High")

\* A count of 150 arriving on a rising trend is classified from 120.
C11_Witness ==
    /\ response.status = "success"
    /\ Len(history) >= 3
    /\ response.vehicle_count = 150
    /\ history[Len(history) - 1] = 40
    /\ predicted_count(history, 150) = 120
    /\ response.predicted_congestion = "High"

(* C12: while the history, the current count included, has fewer than three
   entries, predicted_congestion is the congestion level of the current
   reading. *)
C12_ShortHistory ==
    (response.status = "success" /\ Len(history) < 3) =>
        response.predicted_congestion = response.congestion_level

\* Second reading of a fresh node: 40 then 65 would extrapolate to 90 (High),
\* the prediction is the current level, Medium.
C12_Witness ==
    /\ response.status = "success"
    /\ history = <<40, 65>>
    /\ response.vehicle_count = 65
    /\ response.congestion_level = "Medium"
    /\ response.predicted_congestion = "Medium"

(* C13: the cloud action follows the decision table, first match winning, for
   every posted (congestion_level, vehicle_count): ALERT_TRAFFIC_CONTROL when
   the level is High or the count is above 80, otherwise MONITOR_CLOSELY when
   the level is Medium or the count is above 50, otherwise NO_ACTION. *)
C13_ActionTable ==
    (req.kind = "store" /\ response.status = "success") =>
        LET level == req.congestion_level
            count == req.vehicle_count
            action == response.analytics.action_required
        IN  /\ (level = "High" \/ count > 80) =>
                    action = "ALERT_TRAFFIC_CONTROL"
            /\ (~(level = "High" \/ count > 80)
                    /\ (level = "Medium" \/ count > 50)) =>
                    action = "MONITOR_CLOSELY"
            /\ (~(level = "High" \/ count > 80)
                    /\ ~(level = "Medium" \/ count > 50)) =>
                    action = "NO_ACTION"
            /\ traffic_logs[Len(traffic_logs)].cloud_action = action

\* Both rows of the table match (Medium, 81): the first one wins.
C13_Witness ==
    /\ req.kind = "store"
    /\ response.status = "success"
    /\ req.congestion_level = "Medium"
    /\ req.vehicle_count = 81
    /\ response.analytics.action_required = "ALERT_TRAFFIC_CONTROL"

\* The rows store_data added, oldest first.
Stored == SelectSeq(traffic_logs, LAMBDA row : row.cloud_action # None)

(* C14: the rolling average a store returns is the mean of vehicle_count over
   the last min(10, stored) records the cloud server stored, the record just
   stored included (to the two decimals the response carries); without any
   earlier record it is the current count. *)
C14_AverageOverStored ==
    (req.kind = "store" /\ response.status = "success") =>
        LET rows == LastN(Stored, 10)
        IN  response.analytics.average_last_10 =
                round2(total_count(rows), Len(rows))

(* C15: the trend of a cloud record is increasing exactly when the record's
   vehicle_count is strictly above the rolling average the same record
   reports (average_last_10, in hundredths); an equal count gives
   decreasing. *)
C15_TrendAgainstAverage ==
    (req.kind = "store" /\ response.status = "success") =>
        /\ response.analytics.trend \in {"increasing", "decreasing"}
        /\ response.analytics.trend = "increasing" <=>
               100 * req.vehicle_count > response.analytics.average_last_10

\* A count equal to the average of the earlier rows: decreasing.
C15_Witness ==
    /\ req.kind = "store"
    /\ response.status = "success"
    /\ Len(traffic_logs) >= 3
    /\ req.vehicle_count = 40
    /\ response.analytics.average_last_10 = 4000
    /\ response.analytics.trend = "decreasing"

(* C16: the batch response exists only when every worker the dispatcher
   launched has ended; it is never assembled while a worker still runs. *)
C16_ResponseAfterAllWorkers ==
    disp.response # NoResponse =>
        /\ Returned
        /\ \A t \in Workers : th[t].pc \in {"done", "failed"}

\* A batch of two has returned, both workers done, the second-started first.
C16_Witness ==
    /\ Returned
    /\ disp.num_devices = 2
    /\ disp.response.status = "success"
    /\ Len(disp.response.results) = 2
    /\ disp.response.results[1].device = 2

\* The threads the dispatcher has started in the current batch.
Launched == {t \in Threads : th[t].pc # "unstarted"}

(* C17: a batch that asks for 1 to 5 devices has exactly that many workers,
   each on a different device of the pool. *)
C17_DistinctDevices ==
    (req.kind = "batch" /\ req.requested \in 1..5) =>
        /\ Cardinality(Launched) = req.requested
        /\ Len(disp.selected_devices) = req.requested
        /\ \A t \in Launched : disp.selected_devices[t] \in 1..PoolSize
        /\ \A t, u \in Launched :
               t # u => disp.selected_devices[t] # disp.selected_devices[u]

\* Five workers on the five devices, in an order that is not the pool's.
C17_Witness ==
    /\ req.kind = "batch"
    /\ req.requested = 5
    /\ Returned
    /\ Cardinality(Launched) = 5
    /\ disp.selected_devices = <<3, 1, 5, 2, 4>>

\* The reading of the request just served, and the newest traffic_logs row.
Reading == calls[Len(calls)]

Newest == traffic_logs[Len(traffic_logs)]

(* C18: in a pipeline pass the cloud store is called exactly when the fog
   returned send_to_cloud = true: a forwarded reading gets a cloud record
   (or the error of the store that raised), a reading that is not forwarded,
   such as a count of 10, adds no cloud row and its response carries no
   cloud record. *)
C18_StoreIffForwarded ==
    req.kind = "send" =>
        /\ response.status = "success" =>
               /\ response.fog_result.send_to_cloud <=>
                      response.cloud_response # NoCloud
               /\ response.fog_result.send_to_cloud <=>
                      Newest.cloud_action # None
        /\ response.status # "success" =>
               /\ req.store_failed
               /\ Reading > 60
               /\ Newest.cloud_action = None
        /\ Reading = 10 =>
               /\ response.status = "success"
               /\ response.cloud_response = NoCloud
               /\ Newest.vehicle_count = 10
               /\ Newest.congestion_level = "Low"
               /\ ~Newest.sent_to_cloud
               /\ Newest.cloud_action = None

\* A count of 10 after a forwarded reading: one cloud row, not the newest.
C18_Witness ==
    /\ req.kind = "send"
    /\ Reading = 10
    /\ response.status = "success"
    /\ ~response.fog_result.send_to_cloud
    /\ response.cloud_response = NoCloud
    /\ Len(Stored) = 1

(* C19: a reading with a vehicle count of 70 or more that passes the
   single-device pipeline is classified High and forwarded, and the cloud
   record it receives carries ALERT_TRAFFIC_CONTROL. *)
C19_HighIsAlerted ==
    (req.kind = "send" /\ Reading >= 70) =>
        /\ Len(traffic_logs) >= 1
        /\ response.status = "success" =>
               /\ response.fog_result.congestion_level = "High"
               /\ response.fog_result.send_to_cloud
               /\ response.cloud_response.status = "success"
               /\ response.cloud_response.analytics.action_required =
                      "ALERT_TRAFFIC_CONTROL"
               /\ Newest.cloud_action = "ALERT_TRAFFIC_CONTROL"
        /\ response.status # "success" => req.store_failed

\* The count 80, and the least High count, 70, before it.
C19_Witness ==
    /\ req.kind = "send"
    /\ Len(calls) >= 2
    /\ Reading = 80
    /\ calls[Len(calls) - 1] = 70
    /\ response.status = "success"
    /\ response.cloud_response.analytics.action_required =
           "ALERT_TRAFFIC_CONTROL"

\* The newest min(100, k) of the entries 1..k, in append order.
MostRecent(k) ==
    LET m == IF k < 100 THEN k ELSE 100
    IN  [i \in 1..m |-> k - m + i]

(* C20: whenever an add_console_log call returns, console_logs has at most
   100 entries, and once every call begun has returned it holds exactly the
   newest min(100, k) of the k entries appended, in append order, also when
   the calls come from threads that run side by side. *)
C20_LogSink ==
    [][(\E t \in Loggers : InLog(t) /\ th'[t].pc = "unstarted") =>
          /\ Len(console_logs') <= 100
          /\ (\A t \in Loggers : th'[t].pc = "unstarted") =>
                 console_logs' = MostRecent(Appends')]_vars

(* C21: process_edge_data does not fail on a reading with missing fields: a
   reading without vehicle_count is processed like one with a count of 0
   (Low, not forwarded, status success, counted as filtered), and a missing
   device_id or location is replaced by "Unknown"; fields that are present
   are kept. *)
C21_MissingFieldsDefaulted ==
    req.kind = "fog" =>
        /\ response.status = "success"
        /\ "vehicle_count" \notin DOMAIN req.data =>
               /\ response.vehicle_count = 0
               /\ response.congestion_level = "Low"
               /\ ~response.send_to_cloud
               /\ response.fog_decision = "Handle Locally"
               /\ history[Len(history)] = 0
               /\ Newest.vehicle_count = 0
               /\ Newest.congestion_level = "Low"
               /\ ~Newest.sent_to_cloud
               /\ Newest.cloud_action = None
               /\ Stats.filtered_locally = req.base.filtered_locally + 1
        /\ "vehicle_count" \in DOMAIN req.data =>
               response.vehicle_count = req.data.vehicle_count
        /\ response.device_id =
               (IF "device_id" \in DOMAIN req.data THEN req.data.device_id
                ELSE "Unknown")
        /\ response.location =
               (IF "location" \in DOMAIN req.data THEN req.data.location
                ELSE "Unknown")

\* A reading without a count arrives after three usual ones.
C21_Witness ==
    /\ req.kind = "fog"
    /\ DOMAIN req.data = {"device_id", "location"}
    /\ Len(history) = 4
    /\ response.status = "success"
    /\ response.vehicle_count = 0
    /\ response.device_id = "EDGE_001"

(* C22: of two store_data calls that return, the later one returns the
   greater record_id, whatever fog and cloud rows were written in between
   and whether or not the logs were cleared in between. *)
C22_RecordIdsIncrease ==
    [][(/\ traffic_logs' # traffic_logs
        /\ traffic_logs' # <<>>
        /\ traffic_logs'[Len(traffic_logs')].cloud_action # None)
       => /\ last_record_id' = traffic_logs'[Len(traffic_logs')].id
          /\ last_record_id' > last_record_id]_vars

\* The send_to_cloud flag the process call of the request returned.
ReturnedFlag ==
    IF req.kind = "fog" THEN response.send_to_cloud
    ELSE response.fog_result.send_to_cloud

(* C23: a process call that returns, made while no other runs, moves the
   counters by exactly total_processed + 1 and, when it returned
   send_to_cloud true, forwarded_to_cloud + 1 with filtered_locally
   unchanged, otherwise filtered_locally + 1 with forwarded_to_cloud
   unchanged. *)
C23_CounterFrame ==
    (req.kind \in {"fog", "send"} /\ response.status = "success") =>
        /\ Stats.total_processed = req.base.total_processed + 1
        /\ ReturnedFlag =>
               /\ Stats.forwarded_to_cloud = req.base.forwarded_to_cloud + 1
               /\ Stats.filtered_locally = req.base.filtered_locally
        /\ ~ReturnedFlag =>
               /\ Stats.filtered_locally = req.base.filtered_locally + 1
               /\ Stats.forwarded_to_cloud = req.base.forwarded_to_cloud

(* C24: process calls that run at the same time on a node whose history has
   room for their counts lose no append: once all of them have returned the
   history holds every count appended so far, in append order, and at most
   20 entries. *)
C24_NoLostAppend ==
    (/\ req.kind = "predict"
     /\ Predicts <= 20
     /\ \A t \in Predictors : th[t].pc = "unstarted")
    => /\ history = [i \in 1..Predicts |-> i]
       /\ Len(history) <= 20

\* Both calls have appended, filling the history to 20, and neither has
\* reached the length test yet.
C24_Witness ==
    /\ req.kind = "predict"
    /\ Predicts = 20
    /\ \A t \in Predictors : th[t].pc = "hist_check"
    /\ Len(history) = 20

\* The rows process_edge_data wrote since the table was last emptied: one
\* per process call that returned.
FogRows == SelectSeq(traffic_logs, LAMBDA row : row.cloud_action = None)

\* The fog part of the response of a /fog/process or /edge/send-data request.
FogPart == IF req.kind = "fog" THEN response ELSE response.fog_result

(* C25: a clear resets the node's state as a whole: after it the counters
   read zero and the history is empty, so each of the first two readings
   after a clear is predicted by its own classification. *)
C25_ClearResetsNode ==
    /\ req.kind = "clear" =>
           /\ Stats.total_processed = 0
           /\ Stats.forwarded_to_cloud = 0
           /\ Stats.filtered_locally = 0
           /\ history = <<>>
    /\ (/\ clears >= 1
        /\ req.kind \in {"fog", "send"}
        /\ response.status = "success"
        /\ Len(FogRows) <= 2)
       => FogPart.predicted_congestion = FogPart.congestion_level

(* C30: after a clear the counters keep counting: the k process calls that
   returned since the clear leave total_processed = k and
   forwarded_to_cloud + filtered_locally = k in the node's stats. *)
C30_CountersAfterClear ==
    clears >= 1 =>
        /\ Stats.total_processed = Len(FogRows)
        /\ Stats.forwarded_to_cloud + Stats.filtered_locally = Len(FogRows)

\* The worker thread that serves a device in the current batch.
WorkerOf(device) ==
    CHOOSE t \in Workers : disp.selected_devices[t] = device

(* C26: a device's entry is in the results of the batch only when that
   device's process call and, for a forwarded reading, its store call have
   returned: the worker has ended, the entry carries what the worker read
   and decided, and a forwarded reading's entry carries the cloud record;
   a worker still at work has no entry. *)
C26_ResultAfterProcessing ==
    /\ \A i \in DOMAIN results :
          LET e == results[i]
              me == th[WorkerOf(e.device)]
          IN  /\ me.pc = "done"
              /\ me.congestion_level # None
              /\ e.vehicle_count = me.vehicle_count
              /\ e.send_to_cloud = me.send_to_cloud
              /\ e.send_to_cloud => e.cloud_response.status = "success"
              /\ ~e.send_to_cloud => e.cloud_response = NoCloud
    /\ \A t \in Workers :
          th[t].pc # "done" =>
              \A i \in DOMAIN results :
                  results[i].device # disp.selected_devices[t]

\* One forwarded reading is reported while the other worker is in its store.
C26_Witness ==
    /\ disp.pc = "joining"
    /\ Len(results) = 1
    /\ results[1].send_to_cloud
    /\ \E t \in Workers : th[t].pc = "store"

\* A worker of the batch that has not ended.
AtWork(t) == t \in Workers /\ th[t].pc \notin {"unstarted", "done", "failed"}

(* C27: a worker inside one of its sleeps holds no lock, so it keeps no
   other worker of the batch from its next step: every other worker still
   at work can take a step, unless it waits for the lock while a worker
   that is not asleep holds it. *)
C27_DelayHoldsNoLock ==
    disp.pc = "joining" =>
        \A t \in Workers :
            InDelay(t) =>
                /\ t \notin lock_holders
                /\ \A u \in Workers \ {t} :
                      AtWork(u) =>
                          \/ ENABLED WorkerStep(u)
                          \/ \E w \in lock_holders \ {t, u} : ~InDelay(w)

\* One worker sleeps before its store while the other one is inside the
\* with-lock block that logs its reading.
C27_Witness ==
    /\ disp.pc = "joining"
    /\ \E t, u \in Workers :
          /\ th[t].pc = "delay_cloud"
          /\ th[u].pc = "log_held"

\* Worker t has ended the way process_device can end: with its entry in the
\* results of the response, or in its except block with the error logged.
Ended(t) ==
    \/ th[t].pc = "done" /\ HasResult(t)
    \/ th[t].pc = "failed" /\ th[t].error # None /\ ~HasResult(t)

(* C28: under fair scheduling every batch that has started its workers
   returns its response, and by then every worker has ended, with its
   result or with its error logged, and nobody holds the lock. *)
C28_BatchReturns ==
    (disp.pc = "joining") ~>
        (/\ Returned
         /\ \A t \in Workers : Ended(t)
         /\ lock_holders = {})

\* A batch has returned with one worker's result and another worker's
\* error, both of which went through the lock.
C28_Witness ==
    /\ Returned
    /\ disp.num_devices = 2
    /\ \E t, u \in Workers :
          /\ th[t].pc = "done" /\ HasResult(t)
          /\ th[u].pc = "failed"
    /\ lock_holders = {}

(* C29: in every successful response of /edge/send-data the fog latency
   and the edge-to-fog latency are integers from 10 to 30, the fog-to-cloud
   latency is 0 for a reading that is not forwarded and an integer from 50
   to 100 for a forwarded one, and the total is the sum of the edge-to-fog
   and the fog-to-cloud latency. *)
C29_Latencies ==
    (req.kind = "send" /\ response.status = "success") =>
        LET l == response.latency
            fog == response.fog_result
        IN  /\ fog.latency_ms \in 10..30
            /\ l.edge_to_fog_ms \in 10..30
            /\ ~fog.send_to_cloud => l.fog_to_cloud_ms = 0
            /\ fog.send_to_cloud => l.fog_to_cloud_ms \in 50..100
            /\ l.total_ms = l.edge_to_fog_ms + l.fog_to_cloud_ms

\* A forwarded reading answered with the largest draws: 30 and 100 make a
\* total of 130.
C29_Witness ==
    /\ req.kind = "send" /\ response.status = "success"
    /\ response.fog_result.send_to_cloud
    /\ response.fog_result.latency_ms = 30
    /\ response.latency.total_ms = 130

(* C31: when several workers make the node's first process calls at the
   same time, the table holds at most one counter row for the node and no
   worker ends in its except block because of _ensure_stats_initialized. *)
C31_LazyCreationSafe ==
    /\ Len(fog_stats) <= 1
    /\ \A t \in Threads : th[t].error # "IntegrityError"

(* C32: after any sequence of requests, total_records, the number of rows
   flagged sent_to_cloud, is the number of store_data calls that have
   succeeded since the last clear. *)
C32_TotalRecords ==
    total_records(traffic_logs) = Len(Stored)

(* C33: every record that store_data adds in a pipeline pass, where it is
   called on the fog's own output for a forwarded reading, belongs to a
   reading of more than 60 vehicles and has the action MONITOR_CLOSELY or
   ALERT_TRAFFIC_CONTROL, never NO_ACTION; the response of the pass
   reports the same action. *)
C33_PipelineNeverNoAction ==
    /\ \A i \in DOMAIN Stored :
          /\ Stored[i].vehicle_count > 60
          /\ Stored[i].cloud_action \in
                {"MONITOR_CLOSELY", "ALERT_TRAFFIC_CONTROL"}
    /\ (/\ req.kind = "send"
        /\ response.status = "success"
        /\ response.fog_result.send_to_cloud) =>
          /\ response.cloud_response.analytics.action_required \in
                {"MONITOR_CLOSELY", "ALERT_TRAFFIC_CONTROL"}
          /\ response.cloud_response.analytics.action_required =
                Stored[Len(Stored)].cloud_action

\* Two passes have stored a record each: the least forwarded count, 61,
\* is to be monitored and the least High count, 70, raises the alert.
C33_Witness ==
    /\ Len(Stored) = 2
    /\ Stored[1].vehicle_count = 61
    /\ Stored[1].cloud_action = "MONITOR_CLOSELY"
    /\ Stored[2].vehicle_count = 70
    /\ Stored[2].cloud_action = "ALERT_TRAFFIC_CONTROL"

(* C34: a batch never has more than 5 workers: a request that asks for more
   than 5 devices runs 5 workers, and a request that names no number runs
   3 workers. *)
C34_WorkerLimit ==
    req.kind = "batch" =>
        /\ Cardinality(Launched) <= 5
        /\ Cardinality(Launched) = disp.num_devices
        /\ ("num_devices" \in DOMAIN req.data /\ req.data.num_devices > 5) =>
              Cardinality(Launched) = 5
        /\ "num_devices" \notin DOMAIN req.data =>
              Cardinality(Launched) = 3
        /\ Returned => disp.response.num_devices = Cardinality(Launched)

\* A request for 6 devices has returned after its 5 workers reported.
C34_Witness ==
    /\ req.kind = "batch"
    /\ "num_devices" \in DOMAIN req.data
    /\ req.data.num_devices = 6
    /\ Returned
    /\ Cardinality(Launched) = 5
    /\ Len(disp.response.results) = 5

====
